---- MODULE Spec2Model ----
(***************************************************************************)
(* A model of udiscord: the websocket frame codec and client               *)
(* (src/udiscord/websocket.py) and the gateway bot with its receive loop   *)
(* and heartbeat task (src/udiscord/bot.py), run by a cooperative          *)
(* (uasyncio) event loop.                                                  *)
(*                                                                         *)
(* Bytes are integers 0..255 and byte strings are sequences of them.       *)
(* Python's None is the value None below.                                  *)
(***************************************************************************)
EXTENDS Integers, Sequences, FiniteSets, TLC

(***************************************************************************)
(* Bounds of the model.                                                    *)
(***************************************************************************)
\* Bot.connect() calls the application makes.
MaxConnects == 1
\* Frames the gateway sends over the whole run.
MaxInFrames == 2
\* Bot.heartbeat() tasks the application creates.
MaxHeartbeats == 1
\* WebsocketClient.close() calls the application makes itself.
MaxAppCloses == 2
\* The largest buffer the runtime can allocate for one read(), in bytes.
MemLimit == 100000
\* connect_wlan is called with attempts in 1..MaxWlanAttempts.
MaxWlanAttempts == 5
\* One-second waits of connect_wlan that are followed.
MaxWlanSleeps == 8

(***************************************************************************)
(* Program constants.                                                      *)
(***************************************************************************)
OP_CONT == 0
OP_TEXT == 1
OP_BYTES == 2
OP_CLOSE == 8
OP_PING == 9
OP_PONG == 10

CLOSE_OK == 1000
CLOSE_TOO_BIG == 1009

DISPATCH == 0
HEARTBEAT == 1
IDENTIFY == 2
RESUME == 6
RECONNECT == 7
INVALID_SESSION == 9
HELLO == 10
ACK == 11

\* Python's None (no integer the program uses is negative).
None == 0 - 1

\* Python truthiness of an `int | None` value: None and 0 are falsy.
Truthy(v) == v # None /\ v # 0

(***************************************************************************)
(* Bytes: struct.pack / struct.unpack in network byte order, and the       *)
(* bitwise operators the codec uses.                                       *)
(***************************************************************************)
Byte == 0..255

BitXor[a \in Nat, b \in Nat] ==
    IF a = 0 THEN b
    ELSE IF b = 0 THEN a
    ELSE (((a % 2) + (b % 2)) % 2) + 2 * BitXor[a \div 2, b \div 2]

BitOr[a \in Nat, b \in Nat] ==
    IF a = 0 THEN b
    ELSE IF b = 0 THEN a
    ELSE (IF (a % 2) + (b % 2) > 0 THEN 1 ELSE 0) + 2 * BitOr[a \div 2, b \div 2]

BitAnd[a \in Nat, b \in Nat] ==
    IF a = 0 \/ b = 0 THEN 0
    ELSE ((a % 2) * (b % 2)) + 2 * BitAnd[a \div 2, b \div 2]

\* pack("!B", n), pack("!H", n), pack("!I", n): n as k big-endian bytes, k <= 4.
RECURSIVE PackBE(_, _)
PackBE(n, k) ==
    IF k = 0 THEN <<>> ELSE Append(PackBE(n \div 256, k - 1), n % 256)

\* pack("!Q", n) for the lengths a byte string can have here (n < 2^31).
PackQ(n) == <<0, 0, 0, 0>> \o PackBE(n, 4)

\* unpack("!H", bs), and unpack of any big-endian field below 2^31.
RECURSIVE UnpackBE(_)
UnpackBE(bs) ==
    IF bs = <<>> THEN 0
    ELSE 256 * UnpackBE(SubSeq(bs, 1, Len(bs) - 1)) + bs[Len(bs)]

\* unpack("!Q", bs): Python integers are unbounded; a value of 2^31 or more
\* is only ever compared with MemLimit, so it is kept as 2^31 - 1.
UnpackQ(bs) ==
    IF bs[1] # 0 \/ bs[2] # 0 \/ bs[3] # 0 \/ bs[4] # 0 \/ bs[5] >= 128
    THEN 2147483647
    ELSE UnpackBE(SubSeq(bs, 5, 8))

\* bytes(b ^ mask_bits[i % 4] for i, b in enumerate(data))
XorMask(data, mask_bits) ==
    [i \in 1..Len(data) |-> BitXor[data[i], mask_bits[((i - 1) % 4) + 1]]]

\* stream.read(n) on a buffer: the first n bytes, fewer when the buffer is short.
Take(buf, n) == SubSeq(buf, 1, IF n < Len(buf) THEN n ELSE Len(buf))
Drop(buf, n) == SubSeq(buf, (IF n < Len(buf) THEN n ELSE Len(buf)) + 1, Len(buf))

(***************************************************************************)
(* WebsocketClient.write_frame: the three writes of one frame, in order:   *)
(* the header, the masking key, the masked payload.                        *)
(***************************************************************************)
\* write_frame with `length <= 126` for `length < 126`.
FrameHeaderMutant(op_code, length) ==
    LET byte1 == BitOr[128, op_code]
    IN  IF length <= 126
        THEN <<byte1, BitOr[128, length]>>
        ELSE IF length < 65536
        THEN <<byte1, BitOr[128, 126]>> \o PackBE(length, 2)
        ELSE <<byte1, BitOr[128, 127]>> \o PackQ(length)

\* write_frame with `length <= (1 << 16)` for `length < (1 << 16)`.
FrameHeaderLongMutant(op_code, length) ==
    LET byte1 == BitOr[128, op_code]
    IN  IF length < 126
        THEN <<byte1, BitOr[128, length]>>
        ELSE IF length <= 65536
        THEN <<byte1, BitOr[128, 126]>> \o PackBE(length, 2)
        ELSE <<byte1, BitOr[128, 127]>> \o PackQ(length)

\* The header write of write_frame: length < 126 inline; length < (1 << 16)
\* as 126 and two bytes; otherwise as 127 and eight bytes (no byte string
\* reaches 1 << 64, where write_frame raises ValueError).
FrameHeader(op_code, length) ==
    LET byte1 == BitOr[128, op_code]
    IN  IF length < 126
        THEN <<byte1, BitOr[128, length]>>
        ELSE IF length < 65536
        THEN <<byte1, BitOr[128, 126]>> \o PackBE(length, 2)
        ELSE <<byte1, BitOr[128, 127]>> \o PackQ(length)

WriteFrame(op_code, data, mask_bits) ==
    << FrameHeader(op_code, Len(data)), mask_bits, XorMask(data, mask_bits) >>

(***************************************************************************)
(* WebsocketClient.read_frame on the bytes of buf.  The result is          *)
(*   kind "nodata"   : no header byte (NoDataException);                   *)
(*   kind "badheader": the stream ends inside the header or the extended   *)
(*                     length (unpack raises ValueError);                  *)
(*   kind "short"    : the masking key or the payload is not all there;    *)
(*   kind "toobig"   : the payload read raises MemoryError;                *)
(*   kind "frame"    : (fin, op_code, data), and the bytes after it.       *)
(***************************************************************************)
\* read_frame reading a masking key whether or not the mask bit is set.
MaskKeyLengthMutant(mask) == 4

\* mask_bits = self._underlying.read(4) if mask else b""
MaskKeyLength(mask) == IF mask THEN 4 ELSE 0

ReadFrame(buf) ==
    IF Len(buf) = 0 THEN [kind |-> "nodata"]
    ELSE IF Len(buf) < 2 THEN [kind |-> "badheader"]
    ELSE
    LET byte1 == buf[1]
        byte2 == buf[2]
        fin == BitAnd[byte1, 128] # 0
        op_code == BitAnd[byte1, 15]
        mask == BitAnd[byte2, 128] # 0
        len7 == BitAnd[byte2, 127]
        ext == IF len7 = 126 THEN 2 ELSE IF len7 = 127 THEN 8 ELSE 0
        mlen == MaskKeyLength(mask)
    IN  IF Len(buf) < 2 + ext THEN [kind |-> "badheader"]
        ELSE IF Len(buf) < 2 + ext + mlen THEN [kind |-> "short"]
        ELSE
        LET length == IF len7 = 126 THEN UnpackBE(SubSeq(buf, 3, 4))
                      ELSE IF len7 = 127 THEN UnpackQ(SubSeq(buf, 3, 10))
                      ELSE len7
            mask_bits == SubSeq(buf, 3 + ext, 2 + ext + mlen)
            start == 2 + ext + mlen
        IN  IF length > MemLimit
            THEN [kind |-> "toobig", rest |-> Drop(buf, start)]
            ELSE IF Len(buf) < start + length THEN [kind |-> "short"]
            ELSE LET raw == SubSeq(buf, start + 1, start + length)
                 IN  [kind |-> "frame",
                      fin |-> fin,
                      op_code |-> op_code,
                      data |-> IF mask THEN XorMask(raw, mask_bits) ELSE raw,
                      rest |-> Drop(buf, start + length)]

(***************************************************************************)
(* json.dumps / json.loads, an external codec, stand in as a three-byte    *)
(* text: a gateway message is the record [op, a, b] (a and b are the       *)
(* fields of "d", or "s" of a dispatch), written <<op, a, b>> with None    *)
(* written as the byte 255.  Any other text is malformed JSON (ValueError).*)
(***************************************************************************)
Msg(op, a, b) == [op |-> op, a |-> a, b |-> b]

EncVal(v) == IF v = None THEN 255 ELSE v
DecVal(x) == IF x = 255 THEN None ELSE x

dumps(m) == <<m.op, EncVal(m.a), EncVal(m.b)>>

JsonOk(bs) == Len(bs) = 3
loads(bs) == Msg(bs[1], DecVal(bs[2]), DecVal(bs[3]))

(***************************************************************************)
(* The payloads the bot sends.                                             *)
(***************************************************************************)
\* Bot.send_heartbeat: {"op": HEARTBEAT, "d": self.sequence}
HeartbeatPayload(seq) == Msg(HEARTBEAT, seq, None)

\* Bot.identify: {"op": IDENTIFY, "d": {token, intents, properties, presence}}
IdentifyPayload == Msg(IDENTIFY, None, None)

\* Bot.resume: {"op": RESUME, "d": {token, session_id, seq}}
ResumePayload(sid, seq) == Msg(RESUME, sid, seq)

\* WebsocketClient.close: buf = pack("!H", code) + reason.encode("utf-8")
ClosePayload(code, reason) == PackBE(code, 2) \o reason

\* "Received data is too big." in UTF-8
TooBigReason ==
    <<82, 101, 99, 101, 105, 118, 101, 100, 32, 100, 97, 116, 97, 32,
      105, 115, 32, 116, 111, 111, 32, 98, 105, 103, 46>>

(***************************************************************************)
(* The environment: what random.getrandbits(32) may return, as the four    *)
(* bytes pack("!I", .) makes of it; the session the application may have   *)
(* kept; the frames the gateway may send.                                  *)
(***************************************************************************)
MaskKeys == { <<1, 2, 3, 4>>, <<255, 0, 128, 90>> }

SessionIds == {0, 7}
SequenceNumbers == {None, 4}

\* One unmasked server frame with a payload shorter than 126 bytes.
GatewayFrame(fin, op_code, data) ==
    <<(IF fin THEN 128 ELSE 0) + op_code, Len(data)>> \o data

GatewayMessages ==
    { Msg(DISPATCH, 5, None), Msg(DISPATCH, 9, None), Msg(DISPATCH, 7, None),
      Msg(HELLO, 1, None), Msg(ACK, None, None), Msg(RECONNECT, None, None),
      Msg(INVALID_SESSION, 0, None), Msg(HEARTBEAT, None, None) }

GatewayFrames ==
    { GatewayFrame(TRUE, OP_BYTES, dumps(m)) : m \in GatewayMessages }
    \cup
    { GatewayFrame(TRUE, OP_TEXT, dumps(Msg(DISPATCH, 5, None))),
      \* a Close frame, a Ping, a non-final frame, a continuation frame,
      \* a frame with a reserved opcode, malformed JSON
      GatewayFrame(TRUE, OP_CLOSE, PackBE(CLOSE_OK, 2)),
      GatewayFrame(TRUE, OP_PING, <<1, 2>>),
      GatewayFrame(FALSE, OP_TEXT, dumps(Msg(DISPATCH, 5, None))),
      GatewayFrame(FALSE, OP_PING, <<1, 2>>),
      GatewayFrame(TRUE, OP_CONT, <<1>>),
      GatewayFrame(TRUE, 3, <<1>>),
      GatewayFrame(TRUE, OP_BYTES, <<>>),
      \* a masked frame: key <<1, 2, 3, 4>>, payload dumps(ACK) masked
      <<128 + OP_BYTES, 128 + 3, 1, 2, 3, 4>>
          \o XorMask(dumps(Msg(ACK, None, None)), <<1, 2, 3, 4>>),
      \* a 2-byte extended length carrying a short payload
      <<128 + OP_PING, 126, 0, 1, 9>>,
      \* a header declaring 2^31 - 1 payload bytes
      <<128 + OP_BYTES, 127, 0, 0, 0, 0, 127, 255, 255, 255>>,
      \* a connection that ends inside a frame header
      <<128 + OP_TEXT>> }

(***************************************************************************)
(* State.                                                                  *)
(***************************************************************************)
\* connect: Bot.connect; recv: Bot.receive; hb: Bot.heartbeat;
\* app: the application's own call of WebsocketClient.close.
Tasks == {"conn", "recv", "hb", "app"}

VARIABLES
    session_id,     \* Bot.session_id
    sequence,       \* Bot.sequence
    heartbeat_ack,  \* Bot._heartbeat_ack: "unset", "True" or "False"
    open,           \* WebsocketClient.open: "unset", "True" or "False"
    underlying,     \* the transport of the last connect: "none", "open", "closed"
    closes,         \* calls of _underlying.close() on that transport
    connects,       \* Bot.connect() calls so far
    inbuf,          \* bytes received from the gateway and not yet read
    eof,            \* the gateway has closed its side of the transport
    delivered,      \* frames the gateway has sent so far
    wire,           \* the writes made to the transport that the gateway has
                    \* not yet decoded as a frame, in order
    sent,           \* the frames the gateway has decoded from the transport
    wq,             \* per task: the writes of its write_frame still to make
    fid,            \* frames begun on the transport
    pc,             \* per task: where it is
    exc,            \* per task: the exception that ended it, or "none"
    running,        \* the task the event loop is running, or "none"
    last_recv,      \* the last message Bot.receive got from recv (and printed)
    last_frame,     \* how the last read_frame call ended, and the frame it returned
    appCloses,      \* WebsocketClient.close() calls the application has made
    hbLog,          \* heartbeat events: "send", "sleep", "ack", "close"
    hbStarts,       \* Bot.heartbeat() tasks created so far
    codec,          \* the frame codec on its own: input, bytes, output
    wlan            \* Bot.connect_wlan: its arguments, locals and position

botVars == <<session_id, sequence, heartbeat_ack>>
sockVars == <<open, underlying, closes, connects>>
netVars == <<inbuf, eof, delivered>>
outVars == <<wire, sent, wq, fid>>
taskVars == <<pc, exc, running>>
logVars == <<last_recv, last_frame, appCloses, hbLog, hbStarts>>
vars == <<botVars, sockVars, netVars, outVars, taskVars, logVars, codec, wlan>>

NoMsg == Msg(None, None, None)

\* read_frame has not been called on this connection.
NoFrame == [ended |-> "none"]
\* read_frame returned (fin, op_code, data).
Returned(fin, op_code, data) ==
    [ended |-> "returned", fin |-> fin, op_code |-> op_code, data |-> data]
\* read_frame raised e.
Raised(e) == [ended |-> "raised", e |-> e]

CodecIdle == [phase |-> "idle"]

\* connect_wlan has not been called.
WlanIdle == [pc |-> "idle"]

InitSession ==
    /\ session_id = None
    /\ sequence = None
    /\ heartbeat_ack = "unset"
    /\ open = "unset"
    /\ underlying = "none"
    /\ closes = 0
    /\ connects = 0
    /\ inbuf = <<>>
    /\ eof = FALSE
    /\ delivered = 0
    /\ wire = <<>>
    /\ sent = <<>>
    /\ wq = [t \in Tasks |-> <<>>]
    /\ fid = 0
    /\ pc = [t \in Tasks |-> "none"]
    /\ exc = [t \in Tasks |-> "none"]
    /\ running = "none"
    /\ last_recv = NoMsg
    /\ last_frame = NoFrame
    /\ appCloses = 0
    /\ hbLog = <<>>
    /\ hbStarts = 0

Init == InitSession /\ codec = CodecIdle /\ wlan = WlanIdle

(***************************************************************************)
(* The event loop.  Scheduling is cooperative: a task runs until it        *)
(* suspends (a sleep, awaiting another task) or ends, and only then may    *)
(* another task run.  The socket calls are blocking calls, not suspension  *)
(* points.  The application keeps the loop running.                        *)
(***************************************************************************)
CanRun(t) == running = t \/ running = "none"

\* write_frame with a suspension point between its writes.
SuspendsInWriteFrameMutant == TRUE

\* Whether write_frame suspends between its writes to the transport
\* (it awaits nothing: the writes are plain blocking calls).
SuspendsInWriteFrame == FALSE

\* Task t ends with exception e.
Raise(t, e) ==
    /\ pc' = [pc EXCEPT ![t] = "raised"]
    /\ exc' = [exc EXCEPT ![t] = e]
    /\ running' = "none"

\* Task t goes on to p, still running.
Goto(t, p) ==
    /\ pc' = [pc EXCEPT ![t] = p]
    /\ running' = t
    /\ UNCHANGED exc

\* The three writes of write_frame(op_code, data), tagged with the task
\* and the number of the frame on this transport.
Chunks(t, f, op_code, data, mask_bits) ==
    LET w == WriteFrame(op_code, data, mask_bits)
    IN  [i \in 1..3 |-> [t |-> t, f |-> f, b |-> w[i]]]

\* Task t enters write_frame(op_code, data): mask_bits is drawn at random.
BeginWrite(t, op_code, data) ==
    \E mask_bits \in MaskKeys :
        /\ wq' = [wq EXCEPT ![t] = Chunks(t, fid + 1, op_code, data, mask_bits)]
        /\ fid' = fid + 1
        /\ UNCHANGED <<wire, sent>>

\* The bytes of the writes in flight, in the order written.
RECURSIVE Flatten(_)
Flatten(chunks) ==
    IF chunks = <<>> THEN <<>> ELSE Head(chunks).b \o Flatten(Tail(chunks))

\* One self._underlying.write(...) of the write_frame task t is in.  The
\* gateway decodes the stream as the frame protocol says: once the bytes in
\* flight make a whole frame it takes the frame.
WriteChunk(t) ==
    /\ CanRun(t)
    /\ wq[t] # <<>>
    /\ \E w \in {Append(wire, Head(wq[t]))} :
       \E buf \in {Flatten(w)} :
       \E r \in {ReadFrame(buf)} :
           IF r.kind = "frame"
           THEN /\ sent' = Append(sent, [t |-> w[1].t, fin |-> r.fin,
                                         op_code |-> r.op_code, data |-> r.data])
                /\ wire' = IF r.rest = <<>> THEN <<>>
                           ELSE <<[t |-> t, f |-> Head(wq[t]).f, b |-> r.rest]>>
           ELSE /\ wire' = IF Head(wq[t]).b = <<>> THEN wire ELSE w
                /\ UNCHANGED sent
    /\ wq' = [wq EXCEPT ![t] = Tail(wq[t])]
    /\ running' = IF SuspendsInWriteFrame /\ Len(wq[t]) > 1 THEN "none" ELSE t
    /\ UNCHANGED <<botVars, sockVars, netVars, fid, pc, exc, logVars, codec, wlan>>

\* _close without its `raise ConnectionClosed()`: the caller goes on.
CloseRaisesMutant(t) ==
    /\ open' = "False"
    /\ underlying' = "closed"
    /\ closes' = closes + 1
    /\ Goto(t, IF t = "hb" THEN "check" ELSE IF t = "recv" THEN "loop" ELSE "done")
    /\ UNCHANGED connects

\* WebsocketClient._close: mark the socket closed, close the transport,
\* raise ConnectionClosed.
UnderlyingClose(t) ==
    /\ open' = "False"
    /\ underlying' = "closed"
    /\ closes' = closes + 1
    /\ Raise(t, "ConnectionClosed")
    /\ UNCHANGED connects

(***************************************************************************)
(* The application: it may keep a session (Bot.session_id, Bot.sequence    *)
(* are public attributes), call Bot.connect(), and create a task running   *)
(* Bot.heartbeat(interval).                                                *)
(***************************************************************************)
AppSetSession ==
    /\ running = "none"
    /\ connects = 0
    /\ session_id = None
    /\ \E sid \in SessionIds, seq \in SequenceNumbers :
        /\ session_id' = sid
        /\ sequence' = seq
    /\ UNCHANGED <<heartbeat_ack, sockVars, netVars, outVars, taskVars, logVars, codec, wlan>>

AppConnect ==
    /\ running = "none"
    /\ pc["conn"] \in {"none", "done", "raised"}
    /\ connects < MaxConnects
    /\ connects' = connects + 1
    /\ pc' = [pc EXCEPT !["conn"] = "ready"]
    /\ exc' = [exc EXCEPT !["conn"] = "none"]
    /\ UNCHANGED <<botVars, open, underlying, closes, netVars, outVars, running,
                   logVars, codec, wlan>>

AppStartHeartbeat ==
    /\ running = "none"
    /\ pc["hb"] \in {"none", "raised"}
    /\ hbStarts < MaxHeartbeats
    /\ hbStarts' = hbStarts + 1
    /\ hbLog' = <<>>
    /\ pc' = [pc EXCEPT !["hb"] = "ready"]
    /\ exc' = [exc EXCEPT !["hb"] = "none"]
    /\ UNCHANGED <<botVars, sockVars, netVars, outVars, running, last_recv,
                   last_frame, appCloses, codec, wlan>>

(***************************************************************************)
(* The gateway: it sends frames and may close its side of the transport.   *)
(* Nothing but the blocked read of the receive loop observes the bytes, so *)
(* an arrival is taken at the moment that read waits for it.               *)
(***************************************************************************)
GatewaySend ==
    /\ underlying = "open"
    /\ pc["recv"] = "read"
    /\ ~eof
    /\ inbuf = <<>>
    /\ delivered < MaxInFrames
    /\ \E f \in GatewayFrames : inbuf' = f
    /\ delivered' = delivered + 1
    /\ UNCHANGED <<botVars, sockVars, eof, outVars, taskVars, logVars, codec, wlan>>

GatewayEOF ==
    /\ underlying = "open"
    /\ pc["recv"] = "read"
    /\ ReadFrame(inbuf).kind \in {"nodata", "badheader"}
    /\ ~eof
    /\ eof' = TRUE
    /\ UNCHANGED <<botVars, sockVars, inbuf, delivered, outVars, taskVars, logVars,
                   codec, wlan>>

(***************************************************************************)
(* Bot.connect.                                                            *)
(***************************************************************************)
\* await self.socket.connect(): a new transport, the upgrade handshake, and
\* self.open = True; the assert fails on any answer but "HTTP/1.1 101 ".
SocketConnect ==
    /\ CanRun("conn")
    /\ pc["conn"] = "ready"
    /\ underlying' = "open"
    /\ closes' = 0
    /\ inbuf' = <<>>
    /\ eof' = FALSE
    /\ wire' = <<>>
    /\ sent' = <<>>
    /\ fid' = 0
    /\ last_recv' = NoMsg
    /\ last_frame' = NoFrame
    /\ \E accepted \in BOOLEAN :
        IF accepted
        THEN open' = "True" /\ Goto("conn", "select")
        ELSE open' = open /\ Raise("conn", "AssertionError")
    /\ UNCHANGED <<botVars, connects, delivered, wq, appCloses, hbLog, hbStarts, codec, wlan>>

\* if self.session_id: await self.resume() else: await self.identify()
ConnectSelect ==
    /\ CanRun("conn")
    /\ pc["conn"] = "select"
    /\ IF Truthy(session_id)
       THEN BeginWrite("conn", OP_BYTES, dumps(ResumePayload(session_id, sequence)))
       ELSE BeginWrite("conn", OP_BYTES, dumps(IdentifyPayload))
    /\ Goto("conn", "sending")
    /\ UNCHANGED <<botVars, sockVars, netVars, logVars, codec, wlan>>

\* connect creating the receive task without awaiting identify / resume.
ConnectSpawnMutant ==
    /\ CanRun("conn")
    /\ pc["conn"] = "sending"
    /\ pc' = [pc EXCEPT !["conn"] = "await", !["recv"] = "ready"]
    /\ exc' = [exc EXCEPT !["recv"] = "none"]
    /\ running' = "none"
    /\ UNCHANGED <<botVars, sockVars, netVars, outVars, logVars, codec, wlan>>

\* await uasyncio.create_task(self.receive()): the receive task is created
\* and connect suspends until it ends.
ConnectSpawn ==
    /\ CanRun("conn")
    /\ pc["conn"] = "sending"
    /\ wq["conn"] = <<>>
    /\ pc' = [pc EXCEPT !["conn"] = "await", !["recv"] = "ready"]
    /\ exc' = [exc EXCEPT !["recv"] = "none"]
    /\ running' = "none"
    /\ UNCHANGED <<botVars, sockVars, netVars, outVars, logVars, codec, wlan>>

\* The receive task has ended: connect returns, or raises what it raised.
ConnectJoin ==
    /\ running = "none"
    /\ pc["conn"] = "await"
    /\ pc["recv"] \in {"done", "raised"}
    /\ pc' = [pc EXCEPT !["conn"] = IF exc["recv"] = "none" THEN "done" ELSE "raised"]
    /\ exc' = [exc EXCEPT !["conn"] = exc["recv"]]
    /\ UNCHANGED <<botVars, sockVars, netVars, outVars, running, logVars, codec, wlan>>

(***************************************************************************)
(* Bot.receive and WebsocketClient.recv.  The read of a frame is a         *)
(* blocking call: the task keeps the event loop while it waits for bytes.  *)
(***************************************************************************)
\* while self.socket.open: data = await self.socket.recv()
\*     (recv: while self.open: ... read_frame()), else the task ends.
ReceiveLoop ==
    /\ CanRun("recv")
    /\ pc["recv"] \in {"ready", "loop"}
    /\ wq["recv"] = <<>>
    /\ IF open = "True"
       THEN Goto("recv", "read")
       ELSE /\ pc' = [pc EXCEPT !["recv"] = "done"]
            /\ running' = "none"
            /\ UNCHANGED exc
    /\ UNCHANGED <<botVars, sockVars, netVars, outVars, logVars, codec, wlan>>

\* What read_frame finds once the blocking reads return.
Incoming == ReadFrame(inbuf)

Reading ==
    /\ CanRun("recv")
    /\ pc["recv"] = "read"

\* The frame read_frame returns.
IncomingFrame == Returned(Incoming.fin, Incoming.op_code, Incoming.data)

\* read_frame: read(2) returns nothing (the gateway closed): NoDataException.
RecvNoData ==
    /\ Reading
    /\ eof
    /\ Incoming.kind = "nodata"
    /\ last_frame' = Raised("NoDataException")
    /\ Raise("recv", "NoDataException")
    /\ UNCHANGED <<botVars, sockVars, netVars, outVars, last_recv, appCloses, hbLog,
                   hbStarts, codec, wlan>>

\* read_frame: unpack fails on a short header (ValueError); recv catches it
\* and returns await self._close().
RecvBadHeader ==
    /\ Reading
    /\ eof
    /\ Incoming.kind = "badheader"
    /\ inbuf' = <<>>
    /\ last_frame' = Raised("ValueError")
    /\ UnderlyingClose("recv")
    /\ UNCHANGED <<botVars, eof, delivered, outVars, last_recv, appCloses, hbLog,
                   hbStarts, codec, wlan>>

\* read_frame: MemoryError on the payload read:
\*     await self.close(CLOSE_TOO_BIG, reason="Received data is too big.")
\*     return True, OP_CLOSE, b""
\* close() writes the Close frame only if self.open; if it returns, recv
\* gets the frame (True, OP_CLOSE, b"") and returns await self._close().
RecvTooBig ==
    /\ Reading
    /\ Incoming.kind = "toobig"
    /\ inbuf' = Incoming.rest
    /\ IF open = "True"
       THEN /\ BeginWrite("recv", OP_CLOSE, ClosePayload(CLOSE_TOO_BIG, TooBigReason))
            /\ Goto("recv", "closing")
            /\ UNCHANGED <<sockVars, last_frame>>
       ELSE /\ last_frame' = Returned(TRUE, OP_CLOSE, <<>>)
            /\ UnderlyingClose("recv")
            /\ UNCHANGED outVars
    /\ UNCHANGED <<botVars, eof, delivered, last_recv, appCloses, hbLog, hbStarts,
                   codec, wlan>>

\* recv without `if not fin: raise NotImplementedError()` for a non-final
\* frame: the frame is dropped and the loop reads on.
RecvNotFinalMutant ==
    /\ Reading
    /\ Incoming.kind = "frame"
    /\ ~Incoming.fin
    /\ inbuf' = Incoming.rest
    /\ last_frame' = IncomingFrame
    /\ Goto("recv", "loop")
    /\ UNCHANGED <<botVars, sockVars, eof, delivered, outVars, last_recv, appCloses,
                   hbLog, hbStarts, codec, wlan>>

\* recv: if not fin: raise NotImplementedError()
RecvNotFinal ==
    /\ Reading
    /\ Incoming.kind = "frame"
    /\ ~Incoming.fin
    /\ inbuf' = Incoming.rest
    /\ last_frame' = IncomingFrame
    /\ Raise("recv", "NotImplementedError")
    /\ UNCHANGED <<botVars, sockVars, eof, delivered, outVars, last_recv, appCloses,
                   hbLog, hbStarts, codec, wlan>>

\* recv: OP_TEXT / OP_BYTES: return loads(data); Bot.receive prints it.
\* Malformed JSON raises ValueError outside recv's try.
RecvMessage ==
    /\ Reading
    /\ Incoming.kind = "frame"
    /\ Incoming.fin
    /\ Incoming.op_code \in {OP_TEXT, OP_BYTES}
    /\ inbuf' = Incoming.rest
    /\ last_frame' = IncomingFrame
    /\ IF JsonOk(Incoming.data)
       THEN /\ last_recv' = loads(Incoming.data)
            /\ hbLog' = IF loads(Incoming.data).op = ACK /\ hbLog # <<>>
                        THEN Append(hbLog, "ack") ELSE hbLog
            /\ Goto("recv", "loop")
       ELSE /\ Raise("recv", "ValueError")
            /\ UNCHANGED <<last_recv, hbLog>>
    /\ UNCHANGED <<botVars, sockVars, eof, delivered, outVars, appCloses, hbStarts,
                   codec, wlan>>

\* recv: OP_CLOSE: return await self._close()
RecvClose ==
    /\ Reading
    /\ Incoming.kind = "frame"
    /\ Incoming.fin
    /\ Incoming.op_code = OP_CLOSE
    /\ inbuf' = Incoming.rest
    /\ last_frame' = IncomingFrame
    /\ UnderlyingClose("recv")
    /\ UNCHANGED <<botVars, eof, delivered, outVars, last_recv, appCloses, hbLog,
                   hbStarts, codec, wlan>>

\* recv answering a Ping with a Pong that has no payload.
RecvPingMutant ==
    /\ Reading
    /\ Incoming.kind = "frame"
    /\ Incoming.fin
    /\ Incoming.op_code = OP_PING
    /\ inbuf' = Incoming.rest
    /\ last_frame' = IncomingFrame
    /\ BeginWrite("recv", OP_PONG, <<>>)
    /\ Goto("recv", "loop")
    /\ UNCHANGED <<botVars, sockVars, eof, delivered, last_recv, appCloses, hbLog,
                   hbStarts, codec, wlan>>

\* recv: OP_PING: await self.write_frame(OP_PONG, data), and read on.
RecvPing ==
    /\ Reading
    /\ Incoming.kind = "frame"
    /\ Incoming.fin
    /\ Incoming.op_code = OP_PING
    /\ inbuf' = Incoming.rest
    /\ last_frame' = IncomingFrame
    /\ BeginWrite("recv", OP_PONG, Incoming.data)
    /\ Goto("recv", "loop")
    /\ UNCHANGED <<botVars, sockVars, eof, delivered, last_recv, appCloses, hbLog,
                   hbStarts, codec, wlan>>

\* recv: OP_CONT: raise NotImplementedError(op_code)
RecvContinuation ==
    /\ Reading
    /\ Incoming.kind = "frame"
    /\ Incoming.fin
    /\ Incoming.op_code = OP_CONT
    /\ inbuf' = Incoming.rest
    /\ last_frame' = IncomingFrame
    /\ Raise("recv", "NotImplementedError")
    /\ UNCHANGED <<botVars, sockVars, eof, delivered, outVars, last_recv, appCloses,
                   hbLog, hbStarts, codec, wlan>>

\* recv: any other opcode: raise ValueError(op_code), outside the try.
RecvUnknown ==
    /\ Reading
    /\ Incoming.kind = "frame"
    /\ Incoming.fin
    /\ Incoming.op_code \notin {OP_TEXT, OP_BYTES, OP_CLOSE, OP_PING, OP_CONT}
    /\ inbuf' = Incoming.rest
    /\ last_frame' = IncomingFrame
    /\ Raise("recv", "ValueError")
    /\ UNCHANGED <<botVars, sockVars, eof, delivered, outVars, last_recv, appCloses,
                   hbLog, hbStarts, codec, wlan>>

(***************************************************************************)
(* WebsocketClient.close, as called by read_frame (the receive task), by   *)
(* Bot.heartbeat and by the application.                                   *)
(***************************************************************************)
\* close(): after write_frame(OP_CLOSE, buf): await self._close(), which
\* raises ConnectionClosed through close() and its caller.
CloseFinish(t) ==
    /\ CanRun(t)
    /\ pc[t] = "closing"
    /\ wq[t] = <<>>
    /\ UnderlyingClose(t)
    /\ last_frame' = IF t = "recv" THEN Raised("ConnectionClosed") ELSE last_frame
    /\ UNCHANGED <<botVars, netVars, outVars, last_recv, appCloses, hbLog, hbStarts,
                   codec, wlan>>

\* close() without its `if self.open` test.
AppCloseMutant ==
    /\ running = "none"
    /\ pc["app"] # "closing"
    /\ open # "unset"
    /\ appCloses < MaxAppCloses
    /\ appCloses' = appCloses + 1
    /\ BeginWrite("app", OP_CLOSE, ClosePayload(CLOSE_OK, <<>>))
    /\ Goto("app", "closing")
    /\ UNCHANGED <<botVars, sockVars, netVars, last_recv, last_frame, hbLog, hbStarts,
                   codec, wlan>>

\* The application, after a connect, awaits self.socket.close():
\* if self.open: write the Close frame and _close(); otherwise nothing.
AppClose ==
    /\ running = "none"
    /\ pc["app"] # "closing"
    /\ open # "unset"
    /\ appCloses < MaxAppCloses
    /\ appCloses' = appCloses + 1
    /\ IF open = "True"
       THEN /\ BeginWrite("app", OP_CLOSE, ClosePayload(CLOSE_OK, <<>>))
            /\ Goto("app", "closing")
       ELSE UNCHANGED <<taskVars, outVars>>
    /\ UNCHANGED <<botVars, sockVars, netVars, last_recv, last_frame, hbLog, hbStarts,
                   codec, wlan>>

(***************************************************************************)
(* Bot.heartbeat.                                                          *)
(***************************************************************************)
\* self._heartbeat_ack = True; await uasyncio.sleep(interval * random())
HeartbeatBegin ==
    /\ CanRun("hb")
    /\ pc["hb"] = "ready"
    /\ heartbeat_ack' = "True"
    /\ pc' = [pc EXCEPT !["hb"] = "jitter"]
    /\ running' = "none"
    /\ UNCHANGED <<session_id, sequence, sockVars, netVars, outVars, exc, logVars,
                   codec, wlan>>

\* send_heartbeat -> socket.send: assert self.open, then
\* write_frame(OP_BYTES, dumps({"op": HEARTBEAT, "d": self.sequence}))
SendHeartbeat(next) ==
    IF open = "True"
    THEN /\ BeginWrite("hb", OP_BYTES, dumps(HeartbeatPayload(sequence)))
         /\ Goto("hb", next)
    ELSE /\ Raise("hb", IF open = "unset" THEN "AttributeError" ELSE "AssertionError")
         /\ UNCHANGED outVars

\* The first heartbeat, after the jittered sleep.
HeartbeatFirst ==
    /\ CanRun("hb")
    /\ pc["hb"] = "jitter"
    /\ SendHeartbeat("check")
    /\ hbLog' = IF open = "True" THEN Append(hbLog, "send") ELSE hbLog
    /\ UNCHANGED <<botVars, sockVars, netVars, last_recv, last_frame, appCloses,
                   hbStarts, codec, wlan>>

\* while True: if self._heartbeat_ack: await uasyncio.sleep(interval) ...
\*             else: await self.socket.close()
HeartbeatCheck ==
    /\ CanRun("hb")
    /\ pc["hb"] = "check"
    /\ wq["hb"] = <<>>
    /\ IF heartbeat_ack = "True"
       THEN /\ pc' = [pc EXCEPT !["hb"] = "sleep"]
            /\ running' = "none"
            /\ UNCHANGED <<exc, outVars, hbLog>>
       ELSE IF open = "True"
       THEN /\ BeginWrite("hb", OP_CLOSE, ClosePayload(CLOSE_OK, <<>>))
            /\ Goto("hb", "closing")
            /\ hbLog' = Append(hbLog, "close")
       ELSE /\ Goto("hb", "check")
            /\ UNCHANGED <<outVars, hbLog>>
    /\ UNCHANGED <<botVars, sockVars, netVars, last_recv, last_frame, appCloses,
                   hbStarts, codec, wlan>>

\* ... the sleep is over: await self.send_heartbeat() ...
HeartbeatSend ==
    /\ CanRun("hb")
    /\ pc["hb"] = "sleep"
    /\ SendHeartbeat("sent")
    /\ hbLog' = IF open = "True" THEN hbLog \o <<"sleep", "send">>
                ELSE Append(hbLog, "sleep")
    /\ UNCHANGED <<botVars, sockVars, netVars, last_recv, last_frame, appCloses,
                   hbStarts, codec, wlan>>

\* ... self._heartbeat_ack = False
HeartbeatSent ==
    /\ CanRun("hb")
    /\ pc["hb"] = "sent"
    /\ wq["hb"] = <<>>
    /\ heartbeat_ack' = "False"
    /\ Goto("hb", "check")
    /\ UNCHANGED <<session_id, sequence, sockVars, netVars, outVars, logVars, codec, wlan>>

(***************************************************************************)
(* The specification of the session.                                       *)
(***************************************************************************)
Next ==
    \/ AppSetSession
    \/ AppConnect
    \/ AppStartHeartbeat
    \/ GatewaySend
    \/ GatewayEOF
    \/ SocketConnect
    \/ ConnectSelect
    \/ ConnectSpawn
    \/ ConnectJoin
    \/ \E t \in Tasks : WriteChunk(t)
    \/ \E t \in {"recv", "hb", "app"} : CloseFinish(t)
    \/ AppClose
    \/ ReceiveLoop
    \/ RecvNoData
    \/ RecvBadHeader
    \/ RecvTooBig
    \/ RecvNotFinal
    \/ RecvMessage
    \/ RecvClose
    \/ RecvPing
    \/ RecvContinuation
    \/ RecvUnknown
    \/ HeartbeatBegin
    \/ HeartbeatFirst
    \/ HeartbeatCheck
    \/ HeartbeatSend
    \/ HeartbeatSent

Spec == Init /\ [][Next]_vars

(***************************************************************************)
(* The frame codec on its own: write_frame(op_code, data) with a random    *)
(* masking key, and read_frame on the bytes it wrote.                      *)
(***************************************************************************)
\* A payload of n bytes.
Payload(n) == [i \in 1..n |-> (i * 7 + n) % 256]

CodecOpcodes == {OP_TEXT, OP_BYTES, OP_CLOSE, OP_PING, OP_PONG}

CodecPayloads ==
    { <<>>, <<0>>, <<255>>, <<1, 2, 3, 4, 5>>, <<128, 127, 126, 125>>,
      Payload(124), Payload(125), Payload(126), Payload(127) }

\* Payloads around the 2-byte / 8-byte length boundary.
LongPayloadLengths == {65535, 65536, 70000}

CodecMaskKeys ==
    MaskKeys \cup { <<0, 0, 0, 0>>, <<255, 255, 255, 255>>, <<0, 129, 8, 2>> }

CodecInputs ==
    { [op_code |-> o, data |-> d, mask_bits |-> m] :
        o \in CodecOpcodes, d \in CodecPayloads, m \in CodecMaskKeys }
    \cup
    { [op_code |-> o, data |-> Payload(n), mask_bits |-> <<1, 2, 3, 4>>] :
        o \in CodecOpcodes, n \in LongPayloadLengths }

\* A frame as the gateway writes it: the mask bit clear, no masking key,
\* the payload as it is.
ServerFrame(fin, op_code, data) ==
    LET byte1 == (IF fin THEN 128 ELSE 0) + op_code
        n == Len(data)
    IN  (IF n < 126 THEN <<byte1, n>>
         ELSE IF n < 65536 THEN <<byte1, 126, n \div 256, n % 256>>
         ELSE <<byte1, 127, 0, 0, 0, 0, (n \div 16777216) % 256,
                (n \div 65536) % 256, (n \div 256) % 256, n % 256>>)
        \o data

\* Unmasked frames, and the bytes that follow them on the stream.
ServerInputs ==
    { [fin |-> f, op_code |-> o, data |-> d, tail |-> t] :
        f \in BOOLEAN, o \in {OP_CONT, OP_TEXT, OP_BYTES, OP_CLOSE, OP_PING},
        d \in CodecPayloads \cup {Payload(65536)},
        t \in { <<>>, <<129, 0>>, <<1, 2, 3, 4, 5, 6>> } }

InitCodec ==
    /\ InitSession
    /\ wlan = WlanIdle
    /\ \/ \E in \in CodecInputs : codec = [phase |-> "input", in |-> in]
       \/ \E in \in ServerInputs : codec = [phase |-> "server", in |-> in]

\* write_frame(op_code, data): the three writes, in order, make the stream.
CodecWrite ==
    /\ codec.phase = "input"
    /\ codec' = [phase |-> "written", in |-> codec.in,
                 bytes |-> Flatten(Chunks("conn", 1, codec.in.op_code, codec.in.data,
                                          codec.in.mask_bits))]
    /\ UNCHANGED <<botVars, sockVars, netVars, outVars, taskVars, logVars, wlan>>

\* read_frame() on that stream.
CodecRead ==
    /\ codec.phase = "written"
    /\ codec' = [phase |-> "read", in |-> codec.in, bytes |-> codec.bytes,
                 out |-> ReadFrame(codec.bytes)]
    /\ UNCHANGED <<botVars, sockVars, netVars, outVars, taskVars, logVars, wlan>>

\* read_frame() on a stream that starts with an unmasked frame.
CodecReadServer ==
    /\ codec.phase = "server"
    /\ codec' = [phase |-> "server_read", in |-> codec.in,
                 out |-> ReadFrame(ServerFrame(codec.in.fin, codec.in.op_code,
                                               codec.in.data) \o codec.in.tail)]
    /\ UNCHANGED <<botVars, sockVars, netVars, outVars, taskVars, logVars, wlan>>

NextCodec == CodecWrite \/ CodecRead \/ CodecReadServer

SpecCodec == InitCodec /\ [][NextCodec]_vars

(***************************************************************************)
(* Bot.connect_wlan(ssid, key, attempts) on its own.  The WLAN interface   *)
(* answers isconnected() and status() as it likes.                         *)
(***************************************************************************)
InitWlan ==
    /\ InitSession
    /\ codec = CodecIdle
    /\ \E attempts \in 1..MaxWlanAttempts :
        wlan = [pc |-> "test", attempts |-> attempts, attempt |-> 1,
                sleeps |-> 0, calls |-> 0]

\* while not wlan.isconnected(): ... ; after the loop the function returns.
WlanTest ==
    /\ wlan.pc = "test"
    /\ \E isconnected \in BOOLEAN :
        wlan' = [wlan EXCEPT !.pc = IF isconnected THEN "returned" ELSE "body"]
    /\ UNCHANGED <<botVars, sockVars, netVars, outVars, taskVars, logVars, codec>>

\* The loop body: wlan.connect(ssid, key) unless the interface is
\* connecting; time.sleep(1); attempt += 1;
\* if attempt == attempts: raise RuntimeError(...)
WlanAttempt ==
    /\ wlan.pc = "body"
    /\ wlan.sleeps < MaxWlanSleeps
    /\ \E connecting \in BOOLEAN :
        wlan' = [wlan EXCEPT
                    !.calls = IF connecting THEN @ ELSE @ + 1,
                    !.sleeps = @ + 1,
                    !.attempt = @ + 1,
                    !.pc = IF wlan.attempt + 1 = wlan.attempts
                           THEN "raised" ELSE "test"]
    /\ UNCHANGED <<botVars, sockVars, netVars, outVars, taskVars, logVars, codec>>

NextWlan == WlanTest \/ WlanAttempt

SpecWlan == InitWlan /\ [][NextWlan]_vars

(***************************************************************************)
(* The claims.                                                             *)
(***************************************************************************)
\* The frames the gateway has decoded that task t wrote.
SentBy(t) == SelectSeq(sent, LAMBDA fr : fr.t = t)

\* The heartbeat task has declared a timeout (it called close()).
HasTimeout(log) == \E i \in DOMAIN log : log[i] = "close"

\* Every interval that has elapsed after a heartbeat was preceded by an ack
\* of that heartbeat.
TimelyAcked(log) ==
    \A i \in DOMAIN log :
        log[i] = "sleep" =>
            \E j \in 1..(i - 1) :
                /\ log[j] = "ack"
                /\ \A k \in j..(i - 1) : log[k] # "send"

\* C1: as long as every heartbeat sent is acknowledged before the next
\* interval elapses, the heartbeat task declares no timeout: it never closes
\* the transport.
C1_TimelyAcksNeverTimeOut == TimelyAcked(hbLog) => ~HasTimeout(hbLog)

\* No task is running or can run any more, the heartbeat task having ended
\* on its timeout.
EndedAfterTimeout ==
    /\ HasTimeout(hbLog)
    /\ pc["hb"] = "raised"
    /\ pc["conn"] \in {"none", "done", "raised"}
    /\ pc["recv"] \in {"none", "done", "raised"}
    /\ running = "none"

\* C2: a heartbeat timeout closes the transport once and is followed by a
\* new connection that sends Resume with the session_id and sequence held
\* before the timeout: when everything has come to rest after a timeout, a
\* transport opened after it carries that Resume.
C2_TimeoutThenResume ==
    EndedAfterTimeout =>
        /\ underlying = "open"
        /\ \E i \in DOMAIN sent :
            /\ sent[i].op_code = OP_BYTES
            /\ sent[i].data = dumps(ResumePayload(session_id, sequence))

\* C3: connect() with no prior session_id sends exactly one Identify and no
\* Resume; with a prior session_id it sends exactly one Resume carrying that
\* session_id and sequence, and no Identify.
C3_BootstrapSelection ==
    pc["conn"] = "await" =>
        /\ Len(SentBy("conn")) = 1
        /\ SentBy("conn")[1].op_code = OP_BYTES
        /\ SentBy("conn")[1].data =
               IF session_id = None
               THEN dumps(IdentifyPayload)
               ELSE dumps(ResumePayload(session_id, sequence))

\* C4: once the receive loop has processed a Dispatch, the stored sequence
\* is the s of that (most recent) Dispatch.
C4_SequenceTracksDispatch ==
    last_recv.op = DISPATCH => sequence = last_recv.a

\* Close frames the gateway has received on this transport, and those
\* being written.
CloseFramesSent == Cardinality({i \in DOMAIN sent : sent[i].op_code = OP_CLOSE})
CloseFramesInProgress ==
    Cardinality({t \in Tasks : pc[t] = "closing" /\ wq[t] # <<>>})

\* C5: over any sequence of close() and recv() calls on one connection, at
\* most one Close frame is written and the transport is closed at most once;
\* a close() that has written its Close frame has written the only one, and
\* the transport is not yet closed.
C5_CloseIdempotent ==
    /\ closes <= 1
    /\ CloseFramesSent + CloseFramesInProgress <= 1
    /\ \A t \in Tasks :
        (pc[t] = "closing" /\ wq[t] = <<>>) => (CloseFramesSent = 1 /\ closes = 0)

\* The application has called close() twice: the first call found the socket
\* open; one Close frame was sent and the transport was closed once.
C5_Witness ==
    /\ appCloses = 2
    /\ pc["app"] = "raised"
    /\ closes = 1
    /\ CloseFramesSent = 1

\* C6: for every opcode in {Text, Binary, Ping, Pong, Close}, every payload
\* and every masking key, read_frame on the bytes write_frame wrote returns
\* (final = true, the same opcode, the same payload), and uses all the bytes.
C6_RoundTrip ==
    codec.phase = "read" =>
        /\ codec.out.kind = "frame"
        /\ codec.out.fin
        /\ codec.out.op_code = codec.in.op_code
        /\ codec.out.data = codec.in.data
        /\ codec.out.rest = <<>>

\* A payload of 65536 bytes (the 8-byte length form) has made the round trip.
C6_Witness ==
    /\ codec.phase = "read"
    /\ Len(codec.in.data) = 65536
    /\ codec.in.op_code = OP_PING
    /\ codec.out.kind = "frame"
    /\ Len(codec.out.data) = 65536

\* The receive task has sent the Close frame with code MessageTooBig.
TooBigCloseSent ==
    \E i \in DOMAIN sent :
        /\ sent[i].t = "recv"
        /\ sent[i].op_code = OP_CLOSE
        /\ Len(sent[i].data) >= 2
        /\ SubSeq(sent[i].data, 1, 2) = PackBE(CLOSE_TOO_BIG, 2)

\* C7: when the payload read raises MemoryError, read_frame sends one Close
\* frame with code MessageTooBig (1009) and returns the synthetic frame
\* (final = true, opcode = Close, empty payload) to its caller; it does not
\* raise.
C7_TooBigReturnsSyntheticClose ==
    (TooBigCloseSent /\ pc["recv"] # "closing") =>
        last_frame = Returned(TRUE, OP_CLOSE, <<>>)

\* C8: at most one task is inside write_frame at a time, the bytes in flight
\* all belong to one frame, and the task that began that frame is the one
\* running until the frame is complete: no other task writes in between.
C8_SendSerialized ==
    /\ Cardinality({t \in Tasks : wq[t] # <<>>}) <= 1
    /\ \A i, j \in DOMAIN wire : wire[i].f = wire[j].f /\ wire[i].t = wire[j].t
    /\ wire # <<>> => (running = wire[1].t /\ wq[wire[1].t] # <<>>)

\* The heartbeat task is in the middle of a frame while the receive task is
\* ready to run.
C8_Witness ==
    /\ wire # <<>>
    /\ wire[1].t = "hb"
    /\ Len(wq["hb"]) = 1
    /\ pc["recv"] = "ready"

(***************************************************************************)
(* The session under the event loop's fairness: a task that can run is     *)
(* run, and a sleep ends.  The application and the gateway owe nothing.    *)
(***************************************************************************)
TaskNext ==
    \/ SocketConnect
    \/ ConnectSelect
    \/ ConnectSpawn
    \/ ConnectJoin
    \/ \E t \in Tasks : WriteChunk(t)
    \/ \E t \in {"recv", "hb", "app"} : CloseFinish(t)
    \/ ReceiveLoop
    \/ RecvNoData
    \/ RecvBadHeader
    \/ RecvTooBig
    \/ RecvNotFinal
    \/ RecvMessage
    \/ RecvClose
    \/ RecvPing
    \/ RecvContinuation
    \/ RecvUnknown
    \/ HeartbeatBegin
    \/ HeartbeatFirst
    \/ HeartbeatCheck
    \/ HeartbeatSend
    \/ HeartbeatSent

FairSpec == Spec /\ WF_vars(TaskNext)

Stopped(t) == pc[t] \in {"none", "done", "raised"}

C10_HelloStartsHeartbeat ==
    [][(RecvMessage /\ last_recv'.op = HELLO) =>
        (hbStarts' = hbStarts + 1 /\ pc'["hb"] = "ready")]_vars

\* The receive loop has processed a gateway message with opcode op and has
\* gone on to read the next frame.
ProcessedAndReading(op) ==
    /\ last_recv.op = op
    /\ pc["recv"] = "read"

\* C11: once the receive loop has processed a Reconnect, the transport the
\* message came on is closed with no Close frame sent, and session_id and
\* sequence are kept (for the Resume of the next connection).
C11_ReconnectTearsDown ==
    ProcessedAndReading(RECONNECT) =>
        /\ underlying = "closed"
        /\ CloseFramesSent = 0

\* C12: once the receive loop has processed an InvalidSession, session_id
\* and sequence are cleared and the transport the message came on is closed.
C12_InvalidSessionClears ==
    ProcessedAndReading(INVALID_SESSION) =>
        /\ session_id = None
        /\ sequence = None
        /\ underlying = "closed"

\* read_frame found no header bytes: the transport is exhausted.
TransportExhausted == last_frame = Raised("NoDataException")

\* read_frame returned a frame recv does not support: non-final, a
\* continuation, or an unknown opcode.
UnsupportedFrame ==
    /\ last_frame.ended = "returned"
    /\ \/ ~last_frame.fin
       \/ last_frame.op_code \notin {OP_TEXT, OP_BYTES, OP_CLOSE, OP_PING}

\* read_frame returned a final Close frame.
CloseReceived ==
    /\ last_frame.ended = "returned"
    /\ last_frame.fin
    /\ last_frame.op_code = OP_CLOSE

\* C13: no frame-level or transport-level error (no header bytes, unknown
\* opcode, fragmentation, connection closed) escapes Bot.connect as an
\* exception.
C13_ErrorsHandledLocally ==
    (TransportExhausted \/ UnsupportedFrame \/ CloseReceived \/ CloseFramesSent >= 1)
        => pc["conn"] # "raised"

\* C14: when the receive loop has ended after a Close frame was received or
\* sent, or on a fatal protocol error (transport exhausted, unknown opcode,
\* continuation or non-final frame), the transport is closed and the socket
\* is marked not open.
C14_ExitReleasesTransport ==
    (/\ pc["recv"] \in {"done", "raised"}
     /\ TransportExhausted \/ UnsupportedFrame \/ CloseReceived \/ CloseFramesSent >= 1)
        => (underlying = "closed" /\ open = "False")

\* A frame that is part of a fragmented message.
Fragment(fr) ==
    /\ fr.ended = "returned"
    /\ (~fr.fin \/ fr.op_code = OP_CONT)

\* C15: the step in which read_frame returns a continuation frame or a
\* non-final frame, whatever its opcode, ends recv with NotImplementedError:
\* nothing is delivered to the caller of recv and nothing is written.
C15_FragmentationRejected ==
    [][(pc["recv"] = "read" /\ pc'["recv"] # "read" /\ Fragment(last_frame')) =>
        /\ pc'["recv"] = "raised"
        /\ exc'["recv"] = "NotImplementedError"
        /\ last_recv' = last_recv
        /\ wq' = wq]_vars

\* A non-final Ping frame has been rejected.
C15_Witness ==
    /\ Fragment(last_frame)
    /\ ~last_frame.fin
    /\ last_frame.op_code = OP_PING
    /\ exc["recv"] = "NotImplementedError"

\* C16: the frame write_frame produces has FIN and the mask bit set; a
\* payload of 0..125 bytes has its length in the 7-bit field; 126..65535
\* bytes have marker 126 and a 2-byte big-endian length; 65536 bytes or more
\* have marker 127 and an 8-byte big-endian length; the masking key and the
\* payload follow.
C16_LengthField ==
    codec.phase \in {"written", "read"} =>
        LET n == Len(codec.in.data)
            b == codec.bytes
        IN  /\ b[1] = 128 + codec.in.op_code
            /\ IF n <= 125
               THEN /\ b[2] = 128 + n
                    /\ Len(b) = 2 + 4 + n
               ELSE IF n <= 65535
               THEN /\ b[2] = 128 + 126
                    /\ SubSeq(b, 3, 4) = <<n \div 256, n % 256>>
                    /\ Len(b) = 4 + 4 + n
               ELSE /\ b[2] = 128 + 127
                    /\ SubSeq(b, 3, 10) =
                           <<0, 0, 0, 0, (n \div 16777216) % 256,
                             (n \div 65536) % 256, (n \div 256) % 256, n % 256>>
                    /\ Len(b) = 10 + 4 + n

\* write_frame has written a Close frame with a payload of 65535 bytes.
C16_Witness ==
    /\ codec.phase = "written"
    /\ Len(codec.in.data) = 65535
    /\ codec.in.op_code = OP_CLOSE

\* C17: read_frame on a frame whose mask bit is clear reads no masking key
\* (the bytes right after the length field are the payload, the bytes after
\* the payload stay on the stream) and returns the payload unmodified.
C17_UnmaskedUnmodified ==
    codec.phase = "server_read" =>
        /\ codec.out.kind = "frame"
        /\ codec.out.fin = codec.in.fin
        /\ codec.out.op_code = codec.in.op_code
        /\ codec.out.data = codec.in.data
        /\ codec.out.rest = codec.in.tail

\* An unmasked frame of 126 bytes (2-byte length form), more bytes behind
\* it, has been read.
C17_Witness ==
    /\ codec.phase = "server_read"
    /\ Len(codec.in.data) = 126
    /\ Len(codec.in.tail) = 6

\* The receive task exists and has not ended.
ReceiveAlive == pc["recv"] \in {"ready", "loop", "read", "closing"}

\* C18: Bot.connect writes its message only on a transport whose handshake
\* has completed (socket marked open); what it writes is one Identify or
\* one Resume, the first frame on the transport; and the receive loop
\* exists, and reads, only after that message has been written.
C18_ConnectionOrdering ==
    /\ (pc["conn"] = "sending" \/ wq["conn"] # <<>>) =>
           (open = "True" /\ underlying = "open")
    /\ Len(SentBy("conn")) <= 1
    /\ SentBy("conn") # <<>> =>
           /\ sent[1].t = "conn"
           /\ sent[1].op_code = OP_BYTES
           /\ sent[1].data \in {dumps(IdentifyPayload),
                                dumps(ResumePayload(session_id, sequence))}
    /\ (ReceiveAlive \/ last_frame # NoFrame \/ inbuf # <<>>) =>
           (Len(SentBy("conn")) = 1 /\ wq["conn"] = <<>>)

\* Resume has been written and the receive loop waits for its first frame.
C18_Witness ==
    /\ pc["recv"] = "read"
    /\ last_frame = NoFrame
    /\ inbuf = <<>>
    /\ sent = <<[t |-> "conn", fin |-> TRUE, op_code |-> OP_BYTES,
                 data |-> dumps(ResumePayload(7, 4))]>>

\* read_frame returned a final Ping frame.
PingReceived(fr) ==
    /\ fr.ended = "returned"
    /\ fr.fin
    /\ fr.op_code = OP_PING

\* The frame the writes queued by the receive task make.
PongQueued(q) == ReadFrame(Flatten(q))

\* C19: the step in which read_frame returns a final Ping makes recv write
\* one Pong frame with the same payload; nothing is returned to the caller
\* of recv, the socket stays open, and once the Pong is written recv reads
\* the next frame.
C19_PingPong ==
    [][/\ (/\ pc["recv"] = "read"
           /\ pc'["recv"] \notin {"read", "closing"}
           /\ PingReceived(last_frame')) =>
           /\ pc'["recv"] = "loop"
           /\ Len(wq'["recv"]) = 3
           /\ PongQueued(wq'["recv"]).kind = "frame"
           /\ PongQueued(wq'["recv"]).fin
           /\ PongQueued(wq'["recv"]).op_code = OP_PONG
           /\ PongQueued(wq'["recv"]).data = last_frame'.data
           /\ PongQueued(wq'["recv"]).rest = <<>>
           /\ last_recv' = last_recv
           /\ open' = "True"
           /\ underlying' = "open"
       /\ (pc["recv"] = "loop" /\ pc'["recv"] # "loop" /\ PingReceived(last_frame)) =>
           /\ pc'["recv"] = "read"
           /\ wq["recv"] = <<>>
           /\ sent[Len(sent)] = [t |-> "recv", fin |-> TRUE, op_code |-> OP_PONG,
                                  data |-> last_frame.data]
      ]_vars

\* Two Pings have been answered, each by its own Pong, and recv reads on.
C19_Witness ==
    /\ pc["recv"] = "read"
    /\ PingReceived(last_frame)
    /\ Len(SentBy("recv")) = 2
    /\ SentBy("recv")[1].op_code = OP_PONG
    /\ SentBy("recv")[1].data = <<1, 2>>
    /\ SentBy("recv")[2].data = <<9>>

\* C20: connect_wlan makes at most `attempts` connection attempts (each
\* followed by a one-second wait) before it raises RuntimeError; it raises
\* only when the WLAN has not reported connected.
C20_WlanTerminates ==
    wlan.pc # "idle" =>
        /\ wlan.sleeps <= wlan.attempts
        /\ wlan.pc = "raised" => wlan.attempt = wlan.attempts

====
